---- MODULE Spec2Model ----
(***************************************************************************)
(* Task lifecycle of the VidXpress conversion service:                     *)
(*   POST /api/convert        convert_video  + its background coroutine     *)
(*                            process_video                                 *)
(*   GET  /api/progress/{id}  progress_stream + event_generator             *)
(*   the hourly sweep         cleanup_old_files (scheduler thread)          *)
(* Handlers and process_video are coroutines of one event loop;            *)
(* process_video contains no await, so it keeps the loop from its first    *)
(* statement to its last.  The sweep runs on the scheduler's own thread.   *)
(***************************************************************************)
EXTENDS Integers, Sequences, FiniteSets, TLC

\* ---------------------------------------------------------------- bounds
MaxTasks == 2          \* accepted submissions per run
MaxStreams == 1        \* progress-stream connections per run
MaxEmit == 2           \* non-terminal snapshots one stream may emit

TaskIds == 1..MaxTasks
StreamIds == 1..MaxStreams

\* ------------------------------------------------------------- constants
MAX_FILE_SIZE == 100 * 1024 * 1024
Free == 0              \* the event loop runs no process_video

\* ------------------------------------------------------------------ URLs
\* A URL is a sequence of text fragments; "in" of Python is fragment search.
ALLOWED_DOMAINS ==
    {"youtube.com", "youtu.be", "tiktok.com", "facebook.com", "instagram.com",
     "twitter.com", "x.com", "vimeo.com", "dailymotion.com"}

lower(s) ==
    CASE s = "YOUTU.BE" -> "youtu.be"
      [] s = "EVIL.EXAMPLE" -> "evil.example"
      [] OTHER -> s

validate_url(url) ==
    \E i \in 1..Len(url) : lower(url[i]) \in ALLOWED_DOMAINS

Urls ==
    { <<>>,
      <<"https://", "evil.example", "/x">>,
      <<"https://", "YOUTU.BE", "/abc">> }
Formats == {"mp3", "mp4", "avi"}

\* ------------------------------------------------------------ filesystem
STORAGE_DIR == "downloads"
TEMP_DIR == "/tmp/files"

Path(dir, stem, ext) == [dir |-> dir, stem |-> stem, ext |-> ext]
NoFile == Path("", <<>>, "")      \* a local that is still None
\* shortuuid.uuid(): a fresh name per call
DownloadId(t) == <<"dl", t>>
OutputId_FixedName(t) == <<"out", 1>>
OutputId(t) == <<"out", t>>

VARIABLES
    progress_store,   \* task id -> snapshot
    request,          \* task id -> the ConvertRequest process_video closes over
    pc,               \* task id -> position of process_video
    downloaded_file,  \* task id -> local of process_video
    output_file,      \* task id -> local of process_video
    exc,              \* task id -> the exception process_video caught: [stage, msg]
    file_size,        \* task id -> local of process_video (line 71)
    files,            \* the files on disk: records [path, size]
    loop,             \* the task whose process_video holds the event loop
    response,         \* the last answer to POST /api/convert or GET <download_url>
    streams,          \* stream id -> [state, task_id, data, emitted]
    written,          \* task id -> every snapshot stored for it, in order
    transcodes,       \* task id -> the convert_to_* calls made, in order
    sweep             \* the run of cleanup_old_files in progress, if any

vars == <<progress_store, request, pc, downloaded_file, output_file, exc,
          file_size, files, loop, response, streams, written, transcodes, sweep>>

Exists(p) == \E f \in files : f.path = p

get_file_size(p) ==
    IF ~Exists(p) THEN 0 ELSE (CHOOSE f \in files : f.path = p).size

WriteFile(fs, p, n) == {f \in fs : f.path # p} \cup {[path |-> p, size |-> n]}
RemoveFile(fs, p) == {f \in fs : f.path # p}

\* ------------------------------------------------------------- snapshots
Snap(p, s) == [progress |-> p, status |-> s]
ErrorSnap_ZeroProgress(cause) == [progress |-> 0, status |-> "error", error |-> cause]
ErrorSnap(cause) == [progress |-> 100, status |-> "error", error |-> cause]
CompleteSnap_NoSize(file_id, fmt, size) ==
    [progress |-> 100, status |-> "complete",
     download_url |-> <<"https://api.vidxpress.app/api/download/", file_id>>,
     file_id |-> file_id, format |-> fmt]
CompleteSnap(file_id, fmt, size) ==
    [progress |-> 100, status |-> "complete",
     download_url |-> <<"https://api.vidxpress.app/api/download/", file_id>>,
     file_id |-> file_id, format |-> fmt, file_size |-> size]

NoData == Snap(0, "")
NoRequest == [video_url |-> <<>>, format |-> ""]
NoFailure == [stage |-> "", msg |-> ""]
NoSweep == [pc |-> "idle", entries |-> {}, file_path |-> NoFile, old |-> {}, failed |-> {}]
IsTerminal(snap) == snap.status \in {"complete", "error"}

\* progress_store[task_id] = snap, with the log of writes
Store(t, snap) ==
    /\ progress_store' = (t :> snap) @@ progress_store
    /\ written' = [written EXCEPT ![t] = Append(@, snap)]

Init ==
    /\ progress_store = <<>>
    /\ request = [t \in TaskIds |-> NoRequest]
    /\ pc = [t \in TaskIds |-> "none"]
    /\ downloaded_file = [t \in TaskIds |-> NoFile]
    /\ output_file = [t \in TaskIds |-> NoFile]
    /\ exc = [t \in TaskIds |-> NoFailure]
    /\ file_size = [t \in TaskIds |-> 0]
    /\ files = {}
    /\ loop = Free
    /\ response = [code |-> 0]
    /\ streams = [s \in StreamIds |->
                    [state |-> "idle", task_id |-> 0, data |-> NoData, emitted |-> <<>>]]
    /\ written = [t \in TaskIds |-> <<>>]
    /\ transcodes = [t \in TaskIds |-> <<>>]
    /\ sweep = NoSweep

\* ------------------------------------------------- POST /api/convert
NextTaskId == Cardinality(DOMAIN progress_store) + 1

\* the task is registered before the request is validated
Reject_AfterRegistering ==
    /\ response' = [code |-> 400]
    /\ NextTaskId \in TaskIds
    /\ Store(NextTaskId, Snap(0, "starting"))
    /\ UNCHANGED <<request, pc>>

\* raise HTTPException(status_code=400, detail=...): the three rejections
\* differ in their detail text only, which the model leaves out
Reject ==
    /\ response' = [code |-> 400]
    /\ UNCHANGED <<progress_store, request, pc, written>>

\* the handler awaits the start of the pipeline before it answers
Register_AfterPipelineStart(task_id, url, fmt) ==
    /\ task_id \in TaskIds
    /\ progress_store' = (task_id :> Snap(5, "downloading")) @@ progress_store
    /\ written' = [written EXCEPT
                     ![task_id] = @ \o <<Snap(0, "starting"), Snap(5, "downloading")>>]
    /\ request' = [request EXCEPT ![task_id] = [video_url |-> url, format |-> fmt]]
    /\ pc' = [pc EXCEPT ![task_id] = "in_download"]
    /\ response' = [code |-> 200, task_id |-> task_id]

\* lines 48-49 and 156-158 once shortuuid.uuid() has returned task_id
Register(task_id, url, fmt) ==
    /\ task_id \in TaskIds
    /\ Store(task_id, Snap(0, "starting"))
    /\ request' = [request EXCEPT ![task_id] = [video_url |-> url, format |-> fmt]]
    /\ pc' = [pc EXCEPT ![task_id] = "queued"]
    /\ response' = [code |-> 200, task_id |-> task_id]

Accept(url, fmt) == Register(NextTaskId, url, fmt)

convert_video(url, fmt) ==
    /\ loop = Free
    /\ IF url = <<>> THEN Reject
       ELSE IF fmt \notin {"mp3", "mp4"} THEN Reject
       ELSE IF ~validate_url(url) THEN Reject
       ELSE Accept(url, fmt)
    /\ UNCHANGED <<sweep, downloaded_file, output_file, exc, file_size, files, loop, streams,
                   transcodes>>

\* shortuuid.uuid() is a random value and nothing in the handler compares it
\* with the ids in use: this is an accepted request whose id is the id of a
\* task that has finished. (A repeated id is taken once, and only when the
\* earlier process_video has returned, so that pc[task_id] stands for one
\* executor.)
convert_video_repeated_id(task_id, url, fmt) ==
    /\ loop = Free
    /\ url # <<>>
    /\ fmt \in {"mp3", "mp4"}
    /\ validate_url(url)
    /\ task_id \in DOMAIN progress_store
    /\ pc[task_id] = "done"
    /\ \A u \in TaskIds : \A i \in 2..Len(written[u]) : written[u][i].status # "starting"
    /\ Register(task_id, url, fmt)
    /\ UNCHANGED <<sweep, downloaded_file, output_file, exc, file_size, files, loop, streams,
                   transcodes>>

\* ------------------------------------------------- download_video
\* What one run of yt-dlp under download_video can do: the files it leaves
\* under STORAGE_DIR as <file_id>.<ext>, and the exception it raises, if any.
Exception(type, msg) == [type |-> type, msg |-> msg]
NoException == Exception("", "")

DownloadOutcomes ==
    { [writes |-> {[ext |-> "mp4", size |-> MAX_FILE_SIZE]}, raises |-> NoException],
      [writes |-> {[ext |-> "mp4", size |-> MAX_FILE_SIZE + 1]}, raises |-> NoException],
      [writes |-> {}, raises |-> NoException],
      [writes |-> {[ext |-> "part", size |-> 1]},
       raises |-> Exception("DownloadError", "Video unavailable")],
      [writes |-> {},
       raises |-> Exception("FileNotFoundError", "cookies.txt file is required but not found")],
      [writes |-> {},
       raises |-> Exception("DownloadError", "Sign in to confirm you're not a bot")] }

\* the except clauses of download_video: what str(e) the caller sees
download_except(e) ==
    IF e.type = "FileNotFoundError"
    THEN "Authentication required. The cookies.txt file is missing or invalid."
    ELSE IF e.msg = "Sign in to confirm you're not a bot"
    THEN "YouTube bot detection triggered. The authentication cookies have expired."
    ELSE e.msg

\* STORAGE_DIR.glob(f"{file_id}.*")
Glob(fs, file_id) ==
    {f.path : f \in {g \in fs : g.path.dir = STORAGE_DIR /\ g.path.stem = file_id}}

\* ------------------------------------------------- process_video
\* an exception raised under the try of line 55: stage names the statement
\* that raised, msg is str(e)
Failure(stage, msg) == [stage |-> stage, msg |-> msg]
Raise(t, stage, msg) ==
    /\ exc' = [exc EXCEPT ![t] = Failure(stage, msg)]
    /\ pc' = [pc EXCEPT ![t] = "except"]

\* the coroutine returns: the event loop is free again
Return(t) ==
    /\ pc' = [pc EXCEPT ![t] = "done"]
    /\ downloaded_file' = [downloaded_file EXCEPT ![t] = NoFile]
    /\ output_file' = [output_file EXCEPT ![t] = NoFile]
    /\ loop' = Free

\* lines 55-62: the background task starts and enters download_video
process_start(t) ==
    /\ pc[t] = "queued"
    /\ loop = Free
    /\ loop' = t
    /\ Store(t, Snap(5, "downloading"))
    /\ IF validate_url(request[t].video_url)
       THEN /\ pc' = [pc EXCEPT ![t] = "in_download"]
            /\ UNCHANGED exc
       ELSE Raise(t, "download", "Domain not supported")
    /\ UNCHANGED <<sweep, file_size, request, downloaded_file, output_file, files, response,
                   streams, transcodes>>

\* download_video lines 157-203: yt-dlp ends, the file is looked up
download_return(t, o) ==
    /\ pc[t] = "in_download"
    /\ files' = files \cup
          {[path |-> Path(STORAGE_DIR, DownloadId(t), w.ext), size |-> w.size] : w \in o.writes}
    /\ IF o.raises # NoException
       THEN /\ Raise(t, "download", download_except(o.raises))
            /\ UNCHANGED downloaded_file
       ELSE IF Glob(files', DownloadId(t)) = {}
       THEN /\ Raise(t, "download", download_except(
                     Exception("FileNotFoundError", "Downloaded file not found")))
            /\ UNCHANGED downloaded_file
       ELSE \E p \in Glob(files', DownloadId(t)) :
            /\ downloaded_file' = [downloaded_file EXCEPT ![t] = p]
            /\ pc' = [pc EXCEPT ![t] = "returned"]
            /\ UNCHANGED exc
    /\ UNCHANGED <<sweep, file_size, progress_store, request, output_file, loop, response,
                   streams, written, transcodes>>

\* the existence check passes without line 68 reporting "downloaded"
check_download_NoLabel(t) ==
    /\ pc[t] = "returned"
    /\ IF ~Exists(downloaded_file[t])
       THEN /\ Raise(t, "missing_download", "Download failed - file not found")
            /\ UNCHANGED <<progress_store, written>>
       ELSE /\ pc' = [pc EXCEPT ![t] = "downloaded"]
            /\ UNCHANGED <<exc, progress_store, written>>
    /\ UNCHANGED <<sweep, file_size, request, downloaded_file, output_file, files, loop, response,
                   streams, transcodes>>

\* lines 64-68
check_download(t) ==
    /\ pc[t] = "returned"
    /\ IF ~Exists(downloaded_file[t])
       THEN /\ Raise(t, "missing_download", "Download failed - file not found")
            /\ UNCHANGED <<progress_store, written>>
       ELSE /\ Store(t, Snap(50, "downloaded"))
            /\ pc' = [pc EXCEPT ![t] = "downloaded"]
            /\ UNCHANGED exc
    /\ UNCHANGED <<sweep, file_size, request, downloaded_file, output_file, files, loop, response,
                   streams, transcodes>>

\* the return of line 82 is missing: the executor goes on to the transcode
size_check_NoReturn(t, removed) ==
    /\ pc[t] = "downloaded"
    /\ file_size' = [file_size EXCEPT ![t] = get_file_size(downloaded_file[t])]
    /\ IF file_size'[t] > MAX_FILE_SIZE
       THEN /\ files' = IF removed THEN RemoveFile(files, downloaded_file[t]) ELSE files
            /\ Store(t, ErrorSnap("File exceeds 100MB limit"))
       ELSE /\ Store(t, Snap(60, "converting"))
            /\ UNCHANGED files
    /\ output_file' = [output_file EXCEPT ![t] =
                         Path(TEMP_DIR, OutputId(t), request[t].format)]
    /\ pc' = [pc EXCEPT ![t] = "converting"]
    /\ UNCHANGED <<sweep, exc, loop, downloaded_file, request, response, streams, transcodes>>

\* lines 70-89: the size check; removed is the outcome of os.remove (line 76)
size_check(t, removed) ==
    /\ pc[t] = "downloaded"
    /\ file_size' = [file_size EXCEPT ![t] = get_file_size(downloaded_file[t])]
    /\ IF file_size'[t] > MAX_FILE_SIZE
       THEN IF Exists(downloaded_file[t]) /\ ~removed
            THEN /\ Raise(t, "remove", "OSError")
                 /\ UNCHANGED <<progress_store, written, files, loop,
                                downloaded_file, output_file>>
            ELSE /\ files' = RemoveFile(files, downloaded_file[t])
                 /\ Store(t, ErrorSnap("File exceeds 100MB limit"))
                 /\ Return(t)
                 /\ UNCHANGED exc
       ELSE /\ Store(t, Snap(60, "converting"))
            /\ output_file' = [output_file EXCEPT ![t] =
                                 Path(TEMP_DIR, OutputId(t), request[t].format)]
            /\ pc' = [pc EXCEPT ![t] = "converting"]
            /\ UNCHANGED <<exc, files, loop, downloaded_file>>
    /\ UNCHANGED <<sweep, request, response, streams, transcodes>>

\* ------------------------------------------------- convert_to_mp3 / convert_to_mp4
\* What one ffmpeg run can do when it ends by itself: its return code and
\* whether it left the output file.
TranscodeOutcomes ==
    { [rc |-> 0, created |-> TRUE], [rc |-> 0, created |-> FALSE],
      [rc |-> 1, created |-> FALSE], [rc |-> 1, created |-> TRUE] }

converter(fmt) == IF fmt = "mp3" THEN "convert_to_mp3" ELSE "convert_to_mp4"

\* the subprocess.TimeoutExpired clauses
timeout_message(fmt) ==
    IF fmt = "mp3" THEN "Conversion timed out (max 5 minutes)"
    ELSE "Conversion timed out (max 10 minutes)"

\* a download that already has the requested extension is published as it is
transcode_call_SkipsSameExt(t) ==
    /\ pc[t] = "converting"
    /\ IF downloaded_file[t].ext = request[t].format
       THEN /\ output_file' = [output_file EXCEPT ![t] = downloaded_file[t]]
            /\ Store(t, Snap(90, "finalizing"))
            /\ pc' = [pc EXCEPT ![t] = "finalizing"]
            /\ UNCHANGED <<exc, transcodes>>
       ELSE /\ transcodes' = [transcodes EXCEPT
                                ![t] = Append(@, converter(request[t].format))]
            /\ IF ~Exists(downloaded_file[t])
               THEN Raise(t, "missing_input", "Input file does not exist")
               ELSE /\ pc' = [pc EXCEPT ![t] = "in_transcode"]
                    /\ UNCHANGED exc
            /\ UNCHANGED <<progress_store, written, output_file>>
    /\ UNCHANGED <<sweep, file_size, request, downloaded_file, files, loop, response, streams>>

\* lines 93-103 and the head of convert_to_*: the input check, ffmpeg is spawned
transcode_call(t) ==
    /\ pc[t] = "converting"
    /\ transcodes' = [transcodes EXCEPT ![t] = Append(@, converter(request[t].format))]
    /\ IF ~Exists(downloaded_file[t])
       THEN Raise(t, "missing_input", "Input file does not exist")
       ELSE /\ pc' = [pc EXCEPT ![t] = "in_transcode"]
            /\ UNCHANGED exc
    /\ UNCHANGED <<sweep, file_size, progress_store, request, downloaded_file, output_file, files,
                   loop, response, streams, written>>

\* ffmpeg ends within the timeout: the tail of convert_to_*, then line 105
transcode_return(t, o) ==
    /\ pc[t] = "in_transcode"
    /\ files' = IF o.created THEN WriteFile(files, output_file[t], 1) ELSE files
    /\ IF o.rc # 0
       THEN /\ Raise(t, "transcode_exit", "FFmpeg conversion failed")
            /\ UNCHANGED <<progress_store, written>>
       ELSE IF ~o.created
       THEN /\ Raise(t, "missing_output", "FFmpeg did not create output file")
            /\ UNCHANGED <<progress_store, written>>
       ELSE /\ Store(t, Snap(90, "finalizing"))
            /\ pc' = [pc EXCEPT ![t] = "finalizing"]
            /\ UNCHANGED exc
    /\ UNCHANGED <<sweep, file_size, request, downloaded_file, output_file, loop, response,
                   streams, transcodes>>

\* subprocess.run reaches timeout=300 / timeout=600 and kills ffmpeg
transcode_timeout(t, partial) ==
    /\ pc[t] = "in_transcode"
    /\ files' = IF partial THEN WriteFile(files, output_file[t], 1) ELSE files
    /\ Raise(t, "transcode_timeout", timeout_message(request[t].format))
    /\ UNCHANGED <<sweep, file_size, progress_store, request, downloaded_file, output_file, loop,
                   response, streams, written, transcodes>>

\* the removal of the intermediate file is not wrapped: its failure is raised
finalize_RemoveFatal(t, removed) ==
    /\ pc[t] = "finalizing"
    /\ IF ~Exists(output_file[t])
       THEN /\ Raise(t, "missing_output", "Conversion failed - output file not created")
            /\ UNCHANGED <<progress_store, written, files, loop, downloaded_file,
                           output_file>>
       ELSE IF Exists(downloaded_file[t]) /\ downloaded_file[t] # output_file[t] /\ ~removed
            THEN /\ Raise(t, "remove", "OSError")
                 /\ UNCHANGED <<progress_store, written, files, loop, downloaded_file,
                                output_file>>
            ELSE /\ files' = RemoveFile(files, downloaded_file[t])
                 /\ Store(t, CompleteSnap(output_file[t].stem, request[t].format,
                                          get_file_size(output_file[t])))
                 /\ Return(t)
                 /\ UNCHANGED exc
    /\ UNCHANGED <<sweep, file_size, request, response, streams, transcodes>>

\* lines 107-135; removed is the outcome of os.remove (line 117)
finalize(t, removed) ==
    /\ pc[t] = "finalizing"
    /\ IF ~Exists(output_file[t])
       THEN /\ Raise(t, "missing_output", "Conversion failed - output file not created")
            /\ UNCHANGED <<progress_store, written, files, loop, downloaded_file,
                           output_file>>
       ELSE /\ files' = IF /\ Exists(downloaded_file[t])
                           /\ downloaded_file[t] # output_file[t]
                           /\ removed
                        THEN RemoveFile(files, downloaded_file[t])
                        ELSE files
            /\ Store(t, CompleteSnap(output_file[t].stem, request[t].format,
                                     get_file_size(output_file[t])))
            /\ Return(t)
            /\ UNCHANGED exc
    /\ UNCHANGED <<sweep, file_size, request, response, streams, transcodes>>

\* the except clause cleans up but stores no snapshot
handle_exception_NoSnapshot(t, removed1, removed2) ==
    /\ pc[t] = "except"
    /\ LET rm1 == IF downloaded_file[t] # NoFile /\ removed1
                  THEN {downloaded_file[t]} ELSE {}
           rm2 == IF output_file[t] # NoFile /\ removed2
                  THEN {output_file[t]} ELSE {}
       IN  files' = {f \in files : f.path \notin rm1 \cup rm2}
    /\ Return(t)
    /\ UNCHANGED <<sweep, file_size, progress_store, written, request, exc, response, streams,
                   transcodes>>

\* line 142 does not test os.path.exists: os.remove of a path that is gone
\* raises inside the except clause and process_video ends without a snapshot
handle_exception_UnguardedRemove(t, removed1, removed2) ==
    /\ pc[t] = "except"
    /\ LET rm1 == IF downloaded_file[t] # NoFile /\ removed1
                  THEN {downloaded_file[t]} ELSE {}
           rm2 == IF output_file[t] # NoFile /\ removed2
                  THEN {output_file[t]} ELSE {}
           gone == {p \in {downloaded_file[t], output_file[t]} \ {NoFile} : ~Exists(p)}
       IN  IF gone # {}
           THEN UNCHANGED <<files, progress_store, written>>
           ELSE /\ files' = {f \in files : f.path \notin rm1 \cup rm2}
                /\ Store(t, ErrorSnap(exc[t].msg))
    /\ Return(t)
    /\ UNCHANGED <<sweep, file_size, request, exc, response, streams, transcodes>>

\* lines 137-153; removed1, removed2 are the outcomes of os.remove (line 144)
handle_exception(t, removed1, removed2) ==
    /\ pc[t] = "except"
    /\ LET rm1 == IF downloaded_file[t] # NoFile /\ removed1
                  THEN {downloaded_file[t]} ELSE {}
           rm2 == IF output_file[t] # NoFile /\ removed2
                  THEN {output_file[t]} ELSE {}
       IN  files' = {f \in files : f.path \notin rm1 \cup rm2}
    /\ Store(t, ErrorSnap(exc[t].msg))
    /\ Return(t)
    /\ UNCHANGED <<sweep, file_size, request, exc, response, streams, transcodes>>

\* ------------------------------------------------- cleanup_old_files
\* one round of the loop of lines 19-29, on the scheduler's thread, for a
\* file whose age exceeds max_age_seconds
cleanup_old_files(p) ==
    /\ \E f \in files : f.path = p /\ p.dir = STORAGE_DIR
    /\ files' = RemoveFile(files, p)
    /\ UNCHANGED <<sweep, progress_store, request, pc, downloaded_file, output_file, exc, file_size,
                   loop, response, streams, written, transcodes>>

\* One run of cleanup_old_files statement by statement, as the scheduler's
\* thread executes it while process_video runs on the event loop's thread.
SweepFrame ==
    UNCHANGED <<progress_store, request, pc, downloaded_file, output_file, exc, file_size,
                loop, response, streams, written, transcodes>>

\* lines 16-19: current_time is read and the directory is listed. old holds
\* the listed files whose mtime lies more than max_age_seconds before
\* current_time.
sweep_start(old) ==
    /\ sweep.pc = "idle"
    /\ LET entries == {f.path : f \in {g \in files : g.path.dir = STORAGE_DIR}} IN
       /\ old \subseteq entries
       /\ sweep' = [pc |-> "loop", entries |-> entries, file_path |-> NoFile,
                    old |-> old, failed |-> {}]
    /\ UNCHANGED files
    /\ SweepFrame

\* lines 19-20: the next listed path; is_file() is False for a file that is gone
sweep_is_file(p) ==
    /\ sweep.pc = "loop"
    /\ p \in sweep.entries
    /\ sweep' = IF Exists(p)
                THEN [sweep EXCEPT !.pc = "stat", !.entries = @ \ {p}, !.file_path = p]
                ELSE [sweep EXCEPT !.entries = @ \ {p}]
    /\ UNCHANGED files
    /\ SweepFrame

\* lines 21-23: stat() of a file that is gone raises FileNotFoundError, which
\* only the outer except of lines 33-34 catches: the run is over
sweep_stat ==
    /\ sweep.pc = "stat"
    /\ sweep' = IF ~Exists(sweep.file_path) THEN NoSweep
                ELSE IF sweep.file_path \in sweep.old THEN [sweep EXCEPT !.pc = "remove"]
                ELSE [sweep EXCEPT !.pc = "loop", !.file_path = NoFile]
    /\ UNCHANGED files
    /\ SweepFrame

\* lines 24-29: removed is the outcome of os.remove, whose exception is
\* logged by the inner except; a file that is gone makes it raise
sweep_remove(removed) ==
    /\ sweep.pc = "remove"
    /\ IF Exists(sweep.file_path) /\ removed
       THEN /\ files' = RemoveFile(files, sweep.file_path)
            /\ sweep' = [sweep EXCEPT !.pc = "loop", !.file_path = NoFile]
       ELSE /\ UNCHANGED files
            /\ sweep' = [sweep EXCEPT !.pc = "loop", !.file_path = NoFile,
                                      !.failed = @ \cup {sweep.file_path}]
    /\ SweepFrame

\* line 31: the listing is exhausted
sweep_return ==
    /\ sweep.pc = "loop"
    /\ sweep.entries = {}
    /\ sweep' = NoSweep
    /\ UNCHANGED files
    /\ SweepFrame

\* ------------------------------------------------- GET /api/progress/{task_id}
Pending == Snap(0, "pending")
Get(task_id) ==
    IF task_id \in DOMAIN progress_store THEN progress_store[task_id] ELSE Pending

\* the test forgets the error status
StreamDone_OnlyComplete(data) == data.status = "complete"

\* line 182: data.get("status") in ["complete", "error"]
StreamDone(data) == data.status \in {"complete", "error"}

StreamFrame ==
    UNCHANGED <<sweep, progress_store, request, pc, downloaded_file, output_file, exc, file_size,
                files, loop, response, written, transcodes>>

\* the membership test of line 172 is missing
progress_stream_NoCheck(s, task_id) ==
    /\ loop = Free
    /\ streams[s].state = "idle"
    /\ streams' = [streams EXCEPT ![s].state = "open", ![s].task_id = task_id]
    /\ StreamFrame

\* lines 172-200
progress_stream(s, task_id) ==
    /\ loop = Free
    /\ streams[s].state = "idle"
    /\ IF task_id \notin DOMAIN progress_store
       THEN streams' = [streams EXCEPT ![s].state = "not_found", ![s].task_id = task_id]
       ELSE streams' = [streams EXCEPT ![s].state = "open", ![s].task_id = task_id]
    /\ StreamFrame

\* lines 178-182: read, yield, test
emit(s) ==
    /\ loop = Free
    /\ streams[s].state = "open"
    /\ LET data == Get(streams[s].task_id) IN
       /\ StreamDone(data) \/ Len(streams[s].emitted) < MaxEmit
       /\ streams' = [streams EXCEPT
                        ![s].emitted = Append(@, data),
                        ![s].data = data,
                        ![s].state = IF StreamDone(data) THEN "final" ELSE "sleeping"]
    /\ StreamFrame

\* lines 184-185: the second yield of the terminal snapshot, break
emit_final(s) ==
    /\ loop = Free
    /\ streams[s].state = "final"
    /\ streams' = [streams EXCEPT
                     ![s].emitted = Append(@, streams[s].data),
                     ![s].state = "closed"]
    /\ StreamFrame

\* line 187: asyncio.sleep(0.5) is over
wake(s) ==
    /\ loop = Free
    /\ streams[s].state = "sleeping"
    /\ streams' = [streams EXCEPT ![s].state = "open"]
    /\ StreamFrame

disconnect_CancelsTask(s) ==
    /\ loop = Free
    /\ streams[s].state \in {"sleeping", "final"}
    /\ streams' = [streams EXCEPT ![s].state = "disconnected"]
    /\ progress_store' = (streams[s].task_id :> ErrorSnap("cancelled")) @@ progress_store
    /\ UNCHANGED <<sweep, request, pc, downloaded_file, output_file, exc, file_size,
                   files, loop, response, written, transcodes>>

\* the watcher goes away: the generator is closed at its current yield or sleep
disconnect(s) ==
    /\ loop = Free
    /\ streams[s].state \in {"sleeping", "final"}
    /\ streams' = [streams EXCEPT ![s].state = "disconnected"]
    /\ StreamFrame

\* ------------------------------------------------- GET <download_url>
\* The path of a URL of this service: the route text up to and including its
\* last "/", and what follows it.
url_path(url) ==
    CASE url[1] = "https://api.vidxpress.app/api/download/" ->
             [prefix |-> "/api/download/", rest |-> url[2]]
      [] OTHER -> [prefix |-> "", rest |-> <<>>]

\* download_video(url, format=format): download_video has no parameter named
\* format, so the call raises TypeError, which "except Exception" turns into
\* HTTP 400 whatever the query is
download_video_route == [code |-> 400]

\* The GET routes of the app, in the order they are matched: the static mount
\* /files (over "downloads"), /api/status, /api/progress/{task_id} (a stream,
\* modelled by progress_stream) and /api/download/ (nothing after the slash).
\* A path no route matches is answered 404.
get_response(path) ==
    IF path.prefix = "/api/download/" /\ path.rest = <<>>
    THEN download_video_route
    ELSE [code |-> 404, file_id |-> path.rest]

\* a client follows the download_url of a complete snapshot
get_artifact(t) ==
    /\ loop = Free
    /\ t \in DOMAIN progress_store
    /\ progress_store[t].status = "complete"
    /\ response' = get_response(url_path(progress_store[t].download_url))
    /\ UNCHANGED <<sweep, progress_store, request, pc, downloaded_file, output_file, exc,
                   file_size, files, loop, streams, written, transcodes>>

Next ==
    \/ \E url \in Urls, fmt \in Formats : convert_video(url, fmt)
    \/ \E t \in TaskIds : process_start(t)
    \/ \E t \in TaskIds, o \in DownloadOutcomes : download_return(t, o)
    \/ \E t \in TaskIds : check_download(t)
    \/ \E t \in TaskIds, removed \in BOOLEAN : size_check(t, removed)
    \/ \E t \in TaskIds : transcode_call(t)
    \/ \E t \in TaskIds, o \in TranscodeOutcomes : transcode_return(t, o)
    \/ \E t \in TaskIds, partial \in BOOLEAN : transcode_timeout(t, partial)
    \/ \E t \in TaskIds, removed \in BOOLEAN : finalize(t, removed)
    \/ \E t \in TaskIds, r1 \in BOOLEAN, r2 \in BOOLEAN : handle_exception(t, r1, r2)
    \/ \E f \in files : cleanup_old_files(f.path)
    \/ \E s \in StreamIds, id \in TaskIds : progress_stream(s, id)
    \/ \E s \in StreamIds : emit(s)
    \/ \E s \in StreamIds : emit_final(s)
    \/ \E s \in StreamIds : wake(s)
    \/ \E s \in StreamIds : disconnect(s)
    \/ \E t \in TaskIds : get_artifact(t)

Spec == Init /\ [][Next]_vars

\* The registry and the executors alone (no watcher, no sweep), with ids that
\* may repeat.
RepeatedIdNext ==
    \/ \E url \in Urls, fmt \in Formats : convert_video(url, fmt)
    \/ \E t \in TaskIds, url \in Urls, fmt \in Formats :
          convert_video_repeated_id(t, url, fmt)
    \/ \E t \in TaskIds : process_start(t)
    \/ \E t \in TaskIds, o \in DownloadOutcomes : download_return(t, o)
    \/ \E t \in TaskIds : check_download(t)
    \/ \E t \in TaskIds, removed \in BOOLEAN : size_check(t, removed)
    \/ \E t \in TaskIds : transcode_call(t)
    \/ \E t \in TaskIds, o \in TranscodeOutcomes : transcode_return(t, o)
    \/ \E t \in TaskIds, partial \in BOOLEAN : transcode_timeout(t, partial)
    \/ \E t \in TaskIds, removed \in BOOLEAN : finalize(t, removed)
    \/ \E t \in TaskIds, r1 \in BOOLEAN, r2 \in BOOLEAN : handle_exception(t, r1, r2)

RepeatedIdSpec == Init /\ [][RepeatedIdNext]_vars

\* The executors and the sweep taken statement by statement (no watcher).
SweepNext ==
    \/ \E url \in Urls, fmt \in Formats : convert_video(url, fmt)
    \/ \E t \in TaskIds : process_start(t)
    \/ \E t \in TaskIds, o \in DownloadOutcomes : download_return(t, o)
    \/ \E t \in TaskIds : check_download(t)
    \/ \E t \in TaskIds, removed \in BOOLEAN : size_check(t, removed)
    \/ \E t \in TaskIds : transcode_call(t)
    \/ \E t \in TaskIds, o \in TranscodeOutcomes : transcode_return(t, o)
    \/ \E t \in TaskIds, partial \in BOOLEAN : transcode_timeout(t, partial)
    \/ \E t \in TaskIds, removed \in BOOLEAN : finalize(t, removed)
    \/ \E t \in TaskIds, r1 \in BOOLEAN, r2 \in BOOLEAN : handle_exception(t, r1, r2)
    \/ \E old \in SUBSET {f.path : f \in files} : sweep_start(old)
    \/ \E f \in files : sweep_is_file(f.path)
    \/ sweep_stat
    \/ \E removed \in BOOLEAN : sweep_remove(removed)
    \/ sweep_return

SweepSpec == Init /\ [][SweepNext]_vars

\* The executor's own steps are taken once they can be; whether and when an
\* external tool ends by itself (download_return, transcode_return) is up to
\* the tool, and subprocess.run's timeout fires if ffmpeg has not ended.
Fairness ==
    \A t \in TaskIds :
        /\ WF_vars(process_start(t))
        /\ WF_vars(check_download(t))
        /\ WF_vars(\E removed \in BOOLEAN : size_check(t, removed))
        /\ WF_vars(transcode_call(t))
        /\ WF_vars(\E partial \in BOOLEAN : transcode_timeout(t, partial))
        /\ WF_vars(\E removed \in BOOLEAN : finalize(t, removed))
        /\ WF_vars(\E r1 \in BOOLEAN, r2 \in BOOLEAN : handle_exception(t, r1, r2))

FairSpec == Init /\ [][Next]_vars /\ Fairness

\* ------------------------------------------------------------------ claims
Accepted == DOMAIN progress_store
Last(seq) == seq[Len(seq)]
TaskFiles(t) == {f \in files : f.path.stem \in {DownloadId(t), OutputId(t)}}
InTool(t) == pc[t] \in {"in_download", "in_transcode"}

\* C1: the progress values written for a task never decrease: every snapshot
\* stored for a task has progress >= the progress of the snapshot it replaces.
C1_ProgressMonotonic ==
    \A t \in TaskIds :
        /\ t \in Accepted => progress_store[t] = Last(written[t])
        /\ \A i \in 1..(Len(written[t]) - 1) :
              written[t][i].progress <= written[t][i + 1].progress

C1_Witness ==
    \E t \in Accepted, u \in Accepted :
        /\ progress_store[t].status = "complete" /\ Len(written[t]) = 6
        /\ progress_store[u].status = "error" /\ Len(written[u]) = 4

\* C2: a terminal snapshot is never replaced: of the snapshots written for a
\* task only the last one can be 'complete' or 'error', so a task writes at
\* most one terminal snapshot, and a finished executor has written one.
C2_TerminalAbsorbing ==
    \A t \in TaskIds :
        /\ \A i \in 1..(Len(written[t]) - 1) : ~IsTerminal(written[t][i])
        /\ pc[t] = "done" => IsTerminal(progress_store[t])
        /\ (t \in Accepted /\ IsTerminal(progress_store[t])) => pc[t] = "done"

C2_Witness ==
    \E t \in Accepted :
        /\ progress_store[t].status = "error"
        /\ progress_store[t].error = "File exceeds 100MB limit"
        /\ \E u \in Accepted : pc[u] \in {"converting", "in_transcode"}

\* C3: every external-tool invocation is cut off by a timeout that leads to
\* ERROR, so every accepted task eventually reaches a terminal snapshot.
C3_EveryTaskTerminates ==
    \A t \in TaskIds : (pc[t] = "queued") ~> (pc[t] = "done")

\* C4: a rejected submission (answered 400) changes neither the registry nor
\* any executor: no task id is issued and nothing is launched.
C4_RejectionHasNoEffect ==
    [][(response' # response /\ response'.code = 400)
          => /\ progress_store' = progress_store
             /\ pc' = pc
             /\ request' = request
             /\ written' = written]_vars

C4_Witness ==
    /\ response.code = 400
    /\ \E t \in Accepted : pc[t] = "queued"

\* C5: a task whose intermediate artifact is over the ceiling ends in 'error'
\* with the size-limit cause, its intermediate artifact is gone when that
\* snapshot is published, and no transcode was invoked for it.
C5_OversizeRejected ==
    \A t \in TaskIds :
        (pc[t] = "done" /\ file_size[t] > MAX_FILE_SIZE)
            => /\ progress_store[t] = [progress |-> 100, status |-> "error",
                                       error |-> "File exceeds 100MB limit"]
               /\ Glob(files, DownloadId(t)) = {}
               /\ transcodes[t] = <<>>

\* C6: when a task's snapshot is terminal, no file made for the task exists
\* except the output artifact of a 'complete' task.
C6_NoArtifactOutlivesTask ==
    \A t \in Accepted :
        IsTerminal(progress_store[t])
            => \A f \in TaskFiles(t) :
                  /\ progress_store[t].status = "complete"
                  /\ f.path.stem = progress_store[t].file_id

\* C7 as stated: a stream that has ended emitted exactly one terminal
\* snapshot, as its last element.
C7_OneTerminalSnapshot ==
    \A s \in StreamIds :
        streams[s].state = "closed"
            => LET e == streams[s].emitted IN
               /\ Len(e) >= 1
               /\ IsTerminal(Last(e))
               /\ \A i \in 1..(Len(e) - 1) : ~IsTerminal(e[i])

\* C7 amended: the stream emits the first terminal snapshot it reads twice
\* and then ends: terminal snapshots are the last elements only, at most two
\* of them and equal; a stream that ended by itself emitted exactly two; it
\* sleeps only after a non-terminal snapshot, so a task that is terminal at
\* subscribe time is answered by its terminal snapshot, twice, with no wait.
C7_TerminalSnapshotTwice ==
    \A s \in StreamIds :
        LET e == streams[s].emitted
            n == Len(e)
            terminals == {i \in 1..n : IsTerminal(e[i])}
        IN  /\ terminals \subseteq {n - 1, n}
            /\ (n - 1) \in terminals => (n \in terminals /\ e[n] = e[n - 1])
            /\ streams[s].state = "closed" => terminals = {n - 1, n}
            /\ streams[s].state = "final" => terminals = {n}
            /\ streams[s].state \in {"open", "sleeping"} => terminals = {}
            /\ \A i \in 1..n : \E j \in 1..Len(written[streams[s].task_id]) :
                  e[i] = written[streams[s].task_id][j]

C7_Witness ==
    \E s \in StreamIds :
        /\ streams[s].state = "closed"
        /\ Len(streams[s].emitted) = 3
        /\ streams[s].emitted[1].status = "starting"
        /\ streams[s].emitted[3].status = "error"

\* C8: every failure raised in the executor is caught in it: the executor
\* goes to its except clause and ends with the snapshot (100, 'error', cause
\* of that failure); a transcode timeout ends with the timeout cause.
C8_FailuresBecomeErrorSnapshots ==
    \A t \in TaskIds :
        exc[t] # NoFailure
            => /\ pc[t] \in {"except", "done"}
               /\ pc[t] = "except" => loop = t
               /\ pc[t] = "done"
                     => progress_store[t] = [progress |-> 100, status |-> "error",
                                             error |-> exc[t].msg]
               /\ exc[t].stage = "transcode_timeout"
                     => exc[t].msg \in {"Conversion timed out (max 5 minutes)",
                                        "Conversion timed out (max 10 minutes)"}

C8_Witness ==
    \E t \in Accepted, u \in Accepted :
        /\ pc[t] = "done" /\ exc[t].stage = "transcode_timeout"
        /\ pc[u] = "done" /\ exc[u].stage = "missing_download"

\* C9: while a task is inside an external-tool invocation, the other tasks'
\* executors, new submissions and the progress streams can take steps.
C9_OthersNotBlocked ==
    \A a \in TaskIds :
        InTool(a)
            => /\ \A b \in TaskIds : pc[b] = "queued" => ENABLED process_start(b)
               /\ \A s \in StreamIds : streams[s].state = "open" => ENABLED emit(s)
               /\ ENABLED (\E url \in Urls, fmt \in Formats : convert_video(url, fmt))

\* C10: a subscribe to an id that is not in the registry fails with not-found,
\* leaves the registry unchanged and emits nothing, then or later.
C10_UnknownIdNotFound ==
    [][\A s \in StreamIds :
          /\ (streams[s].state = "idle" /\ streams'[s].state # "idle")
                => /\ progress_store' = progress_store
                   /\ (streams'[s].task_id \notin DOMAIN progress_store)
                         <=> (streams'[s].state = "not_found")
          /\ streams[s].state = "not_found" => streams'[s] = streams[s]
          /\ streams'[s].state = "not_found" => streams'[s].emitted = <<>>]_vars

C10_Witness ==
    \E s \in StreamIds :
        /\ streams[s].state = "not_found"
        /\ streams[s].task_id \in Accepted

\* The state of task t's executor: its position, its locals and its log.
ExecutorState(t) ==
    <<pc[t], request[t], downloaded_file[t], output_file[t], exc[t],
      file_size[t], written[t], transcodes[t]>>

\* C11: once submit has created it, progress_store[t] is written only by the
\* executor of t: a step that changes progress_store[t] or the executor
\* state of t is a step of t's executor (it holds the event loop before or
\* after the step) and touches no stream; every stream step (subscribe, poll,
\* emit, disconnect) and every step of another task's executor leaves
\* progress_store[t] and the executor state of t as they were.
C11_OnlyOwnExecutorWrites ==
    [][\A t \in Accepted :
          /\ (progress_store'[t] # progress_store[t]
               \/ ExecutorState(t)' # ExecutorState(t))
                  => /\ loop = t \/ loop' = t
                     /\ streams' = streams
          /\ streams' # streams
                  => /\ progress_store'[t] = progress_store[t]
                     /\ ExecutorState(t)' = ExecutorState(t)]_vars

\* A watcher left while its task was still at its first snapshot, and the
\* task went on to complete.
C11_Witness ==
    \E s \in StreamIds :
        /\ streams[s].state = "disconnected"
        /\ streams[s].data.status = "starting"
        /\ progress_store[streams[s].task_id].status = "complete"

\* The file a complete snapshot of task t stands for (output_file of line 89).
OutputOf(t) ==
    Path(TEMP_DIR, progress_store[t].file_id, progress_store[t].format)

\* C12: the output file a complete task keeps is within reach of the aging
\* sweep: whenever a task is complete and its output file is on disk,
\* cleanup_old_files can remove that file once it is old enough.
C12_SweepCoversOutputs ==
    \A t \in Accepted :
        (progress_store[t].status = "complete" /\ Exists(OutputOf(t)))
            => ENABLED cleanup_old_files(OutputOf(t))

\* C13: following the download_url of a complete task whose output file is
\* on disk is never answered with a failure: the answer is 200 and carries
\* that output file.
C13_ReferenceResolves ==
    \A t \in Accepted :
        (/\ progress_store[t].status = "complete"
         /\ Exists(OutputOf(t))
         /\ response.code \notin {0, 400}
         /\ "file_id" \in DOMAIN response
         /\ response.file_id = progress_store[t].file_id)
            => /\ response.code = 200
               /\ response.file = OutputOf(t)

\* C14: an entry of the registry is never silently reset by a second
\* creation: no step puts the initial snapshot {0, "starting"} in the place
\* of a different snapshot of a registered task (the second creation fails
\* and leaves the entry as it was).
C14_NoSilentReset ==
    [][\A t \in Accepted :
          progress_store'[t] = Snap(0, "starting")
              => progress_store[t] = Snap(0, "starting")]_vars

\* C15: no entry stays in the registry forever: a task whose snapshot is
\* terminal is eventually evicted from progress_store.
C15_EntriesEvicted ==
    \A t \in TaskIds :
        (t \in DOMAIN progress_store /\ IsTerminal(progress_store[t]))
            ~> (t \notin DOMAIN progress_store)

\* C16: an accepted submission answers before any stage of the pipeline: in
\* the step that returns task_id, progress_store[task_id] is {0, "starting"}
\* and is the only snapshot written for it, process_video is queued and no
\* download has been started for it; an entry is never removed, and a
\* subscribe is answered not-found only for an id that is not registered, so
\* a subscribe made after the id was returned is never answered not-found.
C16_RegisteredBeforeReturn ==
    [][/\ (response' # response /\ response'.code = 200)
            => LET t == response'.task_id IN
               /\ t \in DOMAIN progress_store'
               /\ progress_store'[t] = Snap(0, "starting")
               /\ written'[t] = <<Snap(0, "starting")>>
               /\ pc'[t] = "queued"
               /\ loop' # t
               /\ downloaded_file'[t] = NoFile
               /\ ~\E f \in files' : f.path.stem = DownloadId(t)
       /\ DOMAIN progress_store \subseteq DOMAIN progress_store'
       /\ \A s \in StreamIds :
             (streams[s].state = "idle" /\ streams'[s].state = "not_found")
                 => streams'[s].task_id \notin DOMAIN progress_store]_vars

\* The id has just been returned, nothing of the pipeline has run, and a
\* watcher has already subscribed to it and received the first snapshot.
C16_Witness ==
    /\ response.code = 200
    /\ pc[response.task_id] = "queued"
    /\ \E s \in StreamIds :
          /\ streams[s].task_id = response.task_id
          /\ streams[s].emitted = <<Snap(0, "starting")>>

\* The labels of the success path, in their order.
StageOrder ==
    <<"starting", "downloading", "downloaded", "converting", "finalizing", "complete">>

\* C17: the labels written for one task are the labels of the success path
\* in their fixed order, none skipped and none repeated, possibly cut short
\* by one "error" that follows a non-terminal label and is the last label;
\* and the step that writes "converting" is taken after "downloaded" was
\* written (the file was seen to exist) and measures the intermediate file
\* in that same step, finding it within MAX_FILE_SIZE.
C17_FixedStageOrder ==
    [][\A t \in TaskIds :
          /\ \A i \in 1..Len(written'[t]) :
                \/ i <= Len(StageOrder) /\ written'[t][i].status = StageOrder[i]
                \/ /\ written'[t][i].status = "error"
                   /\ i = Len(written'[t])
                   /\ i > 1
                   /\ i <= Len(StageOrder)
          /\ (/\ Len(written'[t]) > Len(written[t])
              /\ Last(written'[t]).status = "converting")
                 => /\ Last(written[t]).status = "downloaded"
                    /\ file_size'[t] = get_file_size(downloaded_file[t])
                    /\ file_size'[t] <= MAX_FILE_SIZE]_vars

\* One task wrote the whole success path and another was cut short by an
\* error right after "downloaded".
C17_Witness ==
    \E t, u \in TaskIds :
        /\ Len(written[t]) = Len(StageOrder)
        /\ Last(written[t]).status = "complete"
        /\ Len(written[u]) = 4
        /\ written[u][3].status = "downloaded"
        /\ Last(written[u]).status = "error"

\* The fields of a result, and the progress value each non-terminal label
\* is stored with.
ResultFields == {"download_url", "file_id", "format", "file_size"}
StageProgress ==
    [starting |-> 0, downloading |-> 5, downloaded |-> 50, converting |-> 60,
     finalizing |-> 90]

\* C18: every snapshot ever stored is well-formed: it has the four result
\* fields if its status is "complete" and none of them otherwise, an error
\* cause exactly if its status is "error", progress 100 exactly if its status
\* is "complete" or "error", and otherwise the fixed progress of its label
\* (starting 0, downloading 5, downloaded 50, converting 60, finalizing 90);
\* the registry holds the snapshot stored last.
C18_SnapshotsWellFormed ==
    \A t \in TaskIds :
        /\ \A i \in 1..Len(written[t]) :
              LET snap == written[t][i] IN
              /\ {"progress", "status"} \subseteq DOMAIN snap
              /\ IF snap.status = "complete"
                 THEN ResultFields \subseteq DOMAIN snap
                 ELSE ResultFields \cap DOMAIN snap = {}
              /\ ("error" \in DOMAIN snap) <=> (snap.status = "error")
              /\ (snap.progress = 100) <=> IsTerminal(snap)
              /\ ~IsTerminal(snap)
                    => /\ snap.status \in DOMAIN StageProgress
                       /\ snap.progress = StageProgress[snap.status]
        /\ t \in Accepted <=> written[t] # <<>>
        /\ t \in Accepted => progress_store[t] = Last(written[t])

\* Both kinds of terminal snapshot have been stored, each after snapshots of
\* non-terminal labels.
C18_Witness ==
    \E t, u \in TaskIds :
        /\ Len(written[t]) > 1 /\ Last(written[t]).status = "complete"
        /\ Len(written[u]) > 1 /\ Last(written[u]).status = "error"

\* C19: a task whose snapshot is "complete" has called the transcode exactly
\* once, convert_to_mp3 if its format is mp3 and convert_to_mp4 otherwise,
\* also when the download already had the requested extension; what it
\* publishes is the file of that transcode under TEMP_DIR, never the
\* downloaded file.
C19_TranscodedExactlyOnce ==
    \A t \in Accepted :
        progress_store[t].status = "complete"
            => /\ transcodes[t] = << IF request[t].format = "mp3"
                                      THEN "convert_to_mp3" ELSE "convert_to_mp4" >>
               /\ progress_store[t].format = request[t].format
               /\ progress_store[t].file_id # DownloadId(t)
               /\ \A f \in files :
                     f.path.stem = progress_store[t].file_id => f.path.dir = TEMP_DIR

\* A task asked for mp4, its download was an .mp4 file, and it is complete.
C19_Witness ==
    \E t \in Accepted :
        /\ progress_store[t].status = "complete"
        /\ request[t].format = "mp4"
        /\ written[t][3].status = "downloaded"
        /\ transcodes[t] = <<"convert_to_mp4">>

\* The files that the steps taken from one state to the next create,
\* rewrite or remove.
Touched == (files \ files') \cup (files' \ files)

\* C20: the paths are partitioned per task: the output path of a task is
\* never its intermediate path; the paths a task holds are not named after
\* another task, and two complete tasks publish different files; a step of the
\* executor of t (its cleanups included) creates, rewrites or removes only
\* files named after t, never a file named after another task.
C20_PathsPartitioned ==
    [][\A t \in TaskIds :
          /\ output_file'[t] # NoFile => output_file'[t] # downloaded_file'[t]
          /\ \A u \in TaskIds \ {t} :
                /\ {downloaded_file'[t].stem, output_file'[t].stem}
                       \cap {DownloadId(u), OutputId(u)} = {}
                /\ (/\ {t, u} \subseteq DOMAIN progress_store'
                    /\ progress_store'[t].status = "complete"
                    /\ progress_store'[u].status = "complete")
                       => progress_store'[t].file_id # progress_store'[u].file_id
          /\ pc'[t] # pc[t]
                => \A f \in Touched :
                      /\ f.path.stem \in {DownloadId(t), OutputId(t)}
                      /\ \A u \in TaskIds \ {t} :
                            f.path.stem \notin {DownloadId(u), OutputId(u)}]_vars

\* One task failed after its download and cleaned its files up while files
\* of the other task were on disk, and still are.
C20_Witness ==
    \E t, u \in Accepted :
        /\ t # u
        /\ progress_store[u].status = "error"
        /\ Len(written[u]) > 3
        /\ TaskFiles(u) = {}
        /\ progress_store[t].status = "complete"
        /\ t < u
        /\ Exists(OutputOf(t))

\* C21: a failure to delete the intermediate file in the finalizing stage is
\* not fatal: the step the executor takes from "finalizing" while its output
\* file exists ends the task with a "complete" snapshot that has the result
\* fields and names that output file, whether the intermediate file was
\* removed or is still on disk.
C21_RemovalFailureNotFatal ==
    [][\A t \in TaskIds :
          (pc[t] = "finalizing" /\ pc'[t] # pc[t] /\ Exists(output_file[t]))
              => /\ pc'[t] = "done"
                 /\ progress_store'[t].status = "complete"
                 /\ ResultFields \subseteq DOMAIN progress_store'[t]
                 /\ progress_store'[t].file_id = output_file[t].stem
                 /\ \E f \in files' : f.path = output_file[t]]_vars

\* A task is complete and the file it downloaded is still on disk: its
\* removal in the finalizing stage failed.
C21_Witness ==
    \E t \in Accepted :
        /\ progress_store[t].status = "complete"
        /\ Exists(Path(STORAGE_DIR, DownloadId(t), "mp4"))

\* C22: a failure on one file does not abort a run of cleanup_old_files,
\* also while executors remove files of the same directory: when a run is
\* over, every file it listed whose age exceeded the retention window is
\* gone, except the files whose own removal failed.
C22_SweepNotAborted ==
    [][(sweep.pc # "idle" /\ sweep'.pc = "idle")
          => \A p \in sweep.old \ sweep.failed : ~\E f \in files' : f.path = p]_vars

\* C23: the executor's cleanup is idempotent: the error-path cleanup of a
\* task ends in the error snapshot of the failure that was caught, removes
\* nothing but that task's own two files and raises nothing, also when one of
\* its paths is already gone; and the finalizing stage of a task whose
\* intermediate file is already gone completes as it would have otherwise.
C23_CleanupIdempotent ==
    [][\A t \in TaskIds :
          /\ (pc[t] = "except" /\ pc'[t] # pc[t])
                => /\ pc'[t] = "done"
                   /\ progress_store'[t] =
                         [progress |-> 100, status |-> "error", error |-> exc[t].msg]
                   /\ files' \subseteq files
                   /\ \A f \in files \ files' :
                         f.path \in {downloaded_file[t], output_file[t]}
          /\ (/\ pc[t] = "finalizing" /\ pc'[t] # pc[t]
              /\ Exists(output_file[t]) /\ ~Exists(downloaded_file[t]))
                => /\ pc'[t] = "done"
                   /\ progress_store'[t].status = "complete"
                   /\ files' = files]_vars

\* The intermediate file of a task was gone when its transcode was called;
\* the error-path cleanup met the missing path and the task ended with the
\* error of the transcode.
C23_Witness ==
    \E t \in Accepted :
        /\ pc[t] = "done"
        /\ exc[t].stage = "missing_input"
        /\ progress_store[t] = ErrorSnap("Input file does not exist")

\* C24: the sweep never removes a file an in-flight task still needs: the
\* intermediate file of a task that has reported "downloaded" or
\* "converting" and has not called its transcode yet is on disk.
C24_IntermediatePresent ==
    \A t \in TaskIds :
        pc[t] \in {"downloaded", "converting"} => Exists(downloaded_file[t])
====
